---- MODULE Spec2Model ----
(***************************************************************************)
(* The websocket typing server of src/main.go: the per-connection handler  *)
(* handleWebSocket, the book_progress table and the functions that read    *)
(* and write it, and the text normalisation used to compare a submission   *)
(* with a verse.  Every connection of the model uses the same uid.         *)
(* Spec is the server; SpecStats, SpecText and SpecList apply the runtime  *)
(* stats computation, the comparison of a text with a verse and            *)
(* getAllBookProgress to inputs drawn from bounded sets.                   *)
(***************************************************************************)
EXTENDS Integers, Sequences, FiniteSets, TLC

\* ------------------------------------------------------------- bounds
\* The clock counts whole minutes and stops at MaxTime.
MaxTime == 1
\* Caps on the counters the handler increments without a limit of its own.
MaxVerseCount == 3
MaxMistakes == 1
\* Cap on the characters counted by the runtime stats.
MaxChars == 12
\* The longest text a client composes.
MaxLen == 4

\* The connections (goroutines running handleWebSocket) and the one user.
Sessions == {"s1", "s2"}
Uid == "u1"

\* ---------------------------------------------------------------- text
\* A text is a sequence of characters; a character is a one-element name.
\* LF is a control character, PILCROW is U+00B6, PSEP is U+2029, LSEP is
\* U+2028, and " " is the space.
IsControl(c) == c \in {"LF", "TAB"}

IsSpace(c) == c \in {" ", "LF", "TAB", "PSEP", "LSEP"}

\* The UTF-8 width of a character: len() of a Go string counts bytes.
ByteLen(c) == IF c = "PILCROW" THEN 2 ELSE IF c \in {"PSEP", "LSEP"} THEN 3 ELSE 1

RECURSIVE len(_)
len(s) == IF s = <<>> THEN 0 ELSE ByteLen(Head(s)) + len(Tail(s))

Dropped(c) == IsControl(c) \/ c \in {"PILCROW", "PSEP", "LSEP"}

RECURSIVE cleanString(_)
cleanString(s) ==
    IF s = <<>> THEN <<>>
    ELSE IF Dropped(Head(s)) THEN cleanString(Tail(s))
    ELSE <<Head(s)>> \o cleanString(Tail(s))

RECURSIVE TrimLeft(_)
TrimLeft(s) == IF s # <<>> /\ IsSpace(Head(s)) THEN TrimLeft(Tail(s)) ELSE s

RECURSIVE TrimRight(_)
TrimRight(s) ==
    IF s # <<>> /\ IsSpace(s[Len(s)]) THEN TrimRight(SubSeq(s, 1, Len(s) - 1)) ELSE s

TrimSpace(s) == TrimRight(TrimLeft(s))

LowerOf(c) ==
    CASE c = "Q" -> "q" [] c = "U" -> "u" [] c = "I" -> "i" [] c = "T" -> "t"
      [] c = "G" -> "g" [] c = "A" -> "a" [] OTHER -> c

ToLower(s) == [i \in 1..Len(s) |-> LowerOf(s[i])]

\* fmt.Sscanf(content, "%d", &verseNum): leading spaces are skipped, an
\* optional sign and then decimal digits are read; with no digit the scan
\* fails and verseNum keeps its zero value.
DigitValue(c) ==
    CASE c = "0" -> 0 [] c = "1" -> 1 [] c = "2" -> 2 [] c = "3" -> 3 [] c = "4" -> 4
      [] c = "5" -> 5 [] c = "6" -> 6 [] c = "7" -> 7 [] c = "8" -> 8 [] c = "9" -> 9
      [] OTHER -> -1

RECURSIVE ScanDigits(_, _, _)
ScanDigits(s, acc, seen) ==
    IF s # <<>> /\ DigitValue(Head(s)) >= 0
    THEN ScanDigits(Tail(s), 10 * acc + DigitValue(Head(s)), TRUE)
    ELSE IF seen THEN acc ELSE 0

Sscanf(content) ==
    LET t == TrimLeft(content) IN
    IF t # <<>> /\ Head(t) = "-" THEN 0 - ScanDigits(Tail(t), 0, FALSE)
    ELSE IF t # <<>> /\ Head(t) = "+" THEN ScanDigits(Tail(t), 0, FALSE)
    ELSE ScanDigits(t, 0, FALSE)

\* ------------------------------------------------------- passage index
\* versesByBook after groupVersesByBook: every key has at least one verse,
\* and every text went through cleanString when it was loaded.
Verse(b, n, t) == [BookName |-> b, Verse |-> n, Text |-> cleanString(t)]

versesByBook ==
    [b \in {"A"} |-> <<Verse("A", 1, <<"I", "n">>), Verse("A", 2, <<"G", "o">>)>>]

Books == DOMAIN versesByBook

\* The names a client sends with select_book: the book, a name that is no
\* book, and the empty string.
BookNames == Books \cup {"X", ""}

\* What a client sends with content.
Submissions ==
    { <<"I", "n">>, <<"i", "n">>, <<"G", "o">>, <<"PILCROW", "I", "LF", "n", " ">>,
      <<"Q", "u", "I", "T", " ">>, <<>> }

\* What a client sends with jump_to_verse.
JumpContents ==
    { <<"0">>, <<"1">>, <<" ", "2", "x">>, <<"3">>, <<"-", "1">>, <<"x">> }

\* --------------------------------------------------------------- state
VARIABLES
    now,                \* wall clock, in minutes
    users,              \* table users: the uids that have a row
    book_progress,      \* table book_progress: its rows, in insertion order
    typing_sessions,    \* table typing_sessions: the row each connection created last
                        \* (createTypingSession and updateTypingSession succeed)
    pc,                 \* where each handleWebSocket goroutine stands
    msgType,            \* msg.Type of the message a connection read last
    selectedBook,       \* var selectedBook string
    bookProgress,       \* var bookProgress *BookProgress
    bookVerses,         \* var bookVerses []Verse, declared in the function body
    currentVerseIndex,  \* var currentVerseIndex int
    runtimeStats,       \* runtimeStats RuntimeStats
    sessionID,          \* var sessionID int: 0, or 1 for the id of the row created
    err,                \* what the SELECT of getBookProgress returned
    out,                \* the messages written while handling the last message
    shown,              \* history: the verse the last verse message carried
    answered,           \* history: per book, passages answered exactly, in order
    typed,              \* the text a client has composed for msg.Content
    verdict,            \* how lines 514-528 judged the text against a verse
    jumped              \* history: the index of the passage that the jump_to_verse
                        \* read last named, -1 if the last message was no such jump

vars ==
    <<now, users, book_progress, typing_sessions, pc, msgType, selectedBook,
      bookProgress, bookVerses, currentVerseIndex, runtimeStats, sessionID, err,
      out, shown, answered, typed, verdict, jumped>>

\* A nil pointer, a missing row, no verse shown.
Nil == [nil |-> TRUE]

\* BookProgress and RuntimeStats as Go zero-initialises them.
NewBookProgress(total) ==
    [CurrentVerse |-> 0, TotalVerses |-> total, CorrectEntries |-> 0, Mistakes |-> 0]

NewRuntimeStats(t) ==
    [StartTime |-> t, CharsTyped |-> 0, CorrectChars |-> 0, WPM |-> 0, Started |-> FALSE]

\* Stats{BookProgress: *bookProgress, RuntimeStats: runtimeStats} as it is sent.
Stats(bp, rs) ==
    [CurrentVerse |-> bp.CurrentVerse, TotalVerses |-> bp.TotalVerses,
     CorrectEntries |-> bp.CorrectEntries, Mistakes |-> bp.Mistakes,
     CharsTyped |-> rs.CharsTyped, CorrectChars |-> rs.CorrectChars,
     WPM |-> rs.WPM, Started |-> rs.Started]

\* A Message written to the connection.  A fixed text travels as a one-word
\* content; a verse message carries the verse.
Message(type, content, verse, number, total, stats) ==
    [type |-> type, content |-> content, verse |-> verse, number |-> number,
     total |-> total, stats |-> stats, progress |-> <<>>]

Plain(type, word) == Message(type, <<word>>, Nil, 0, 0, Nil)

VerseMessage(v, index, total, stats) == Message("verse", v.Text, v, index + 1, total, stats)

BooksMessage(progress) ==
    [type |-> "books", content |-> <<>>, verse |-> Nil, number |-> 0, total |-> 0,
     stats |-> Nil, progress |-> progress]

\* -------------------------------------------------------------- tables
\* The rows of book_progress WHERE uid = $1 AND book_name = $2.
RowsOf(uid, bookName) ==
    {i \in DOMAIN book_progress :
        book_progress[i].uid = uid /\ book_progress[i].book_name = bookName}

FirstRow(uid, bookName) ==
    book_progress[CHOOSE i \in RowsOf(uid, bookName) : \A j \in RowsOf(uid, bookName) : i <= j]

\* INSERT INTO book_progress (uid, book_name, total_verses): the other columns
\* take their defaults.  UNIQUE(uid, book_name) rejects a second row.
UniqueViolation(uid, bookName) == RowsOf(uid, bookName) # {}

InsertedRow(uid, bookName, totalVerses) ==
    [uid |-> uid, book_name |-> bookName, current_verse |-> 0,
     total_verses |-> totalVerses, correct_entries |-> 0, mistakes |-> 0]

\* Scan with the first two destinations exchanged.
Scan_Swapped(row) ==
    [CurrentVerse |-> row.total_verses, TotalVerses |-> row.current_verse,
     CorrectEntries |-> row.correct_entries, Mistakes |-> row.mistakes]

\* The BookProgress that Scan fills from a row.
Scan(row) ==
    [CurrentVerse |-> row.current_verse, TotalVerses |-> row.total_verses,
     CorrectEntries |-> row.correct_entries, Mistakes |-> row.mistakes]

\* updateBookProgress: the table after the UPDATE, or as it was if it failed.
updateBookProgress(uid, bookName, bp, fail) ==
    IF fail THEN book_progress
    ELSE [i \in DOMAIN book_progress |->
            IF i \in RowsOf(uid, bookName)
            THEN [book_progress[i] EXCEPT !.current_verse = bp.CurrentVerse,
                                          !.correct_entries = bp.CorrectEntries,
                                          !.mistakes = bp.Mistakes]
            ELSE book_progress[i]]

\* updateTypingSession, called only when sessionID > 0.
updateTypingSession(s, rs) ==
    IF sessionID[s] > 0 /\ typing_sessions[s] # Nil
    THEN [typing_sessions EXCEPT ![s] =
            [chars_typed |-> rs.CharsTyped, correct_chars |-> rs.CorrectChars, wpm |-> rs.WPM]]
    ELSE typing_sessions

\* getAllBookProgress: book -> percent, for the rows with total_verses > 0;
\* an empty map when the query failed.
getAllBookProgress(uid, fail) ==
    LET named == {b \in Books : \E i \in DOMAIN book_progress :
                     /\ book_progress[i].uid = uid
                     /\ book_progress[i].book_name = b
                     /\ book_progress[i].total_verses > 0}
        last(b) == CHOOSE i \in RowsOf(uid, b) :
                     /\ book_progress[i].total_verses > 0
                     /\ \A j \in RowsOf(uid, b) : book_progress[j].total_verses > 0 => j <= i
    IN  IF fail THEN <<>>
        ELSE [b \in named |->
                (book_progress[last(b)].current_verse * 100) \div book_progress[last(b)].total_verses]

\* ------------------------------------------------------------- handler
Init ==
    /\ now = 0
    /\ users = {}
    /\ book_progress = <<>>
    /\ typing_sessions = [s \in Sessions |-> Nil]
    /\ pc = [s \in Sessions |-> "start"]
    /\ msgType = [s \in Sessions |-> ""]
    /\ selectedBook = [s \in Sessions |-> ""]
    /\ bookProgress = [s \in Sessions |-> Nil]
    /\ bookVerses = [s \in Sessions |-> <<>>]
    /\ currentVerseIndex = [s \in Sessions |-> 0]
    /\ runtimeStats = [s \in Sessions |-> NewRuntimeStats(0)]
    /\ sessionID = [s \in Sessions |-> 0]
    /\ err = [s \in Sessions |-> "nil"]
    /\ out = [s \in Sessions |-> <<>>]
    /\ shown = [s \in Sessions |-> Nil]
    /\ answered = [b \in Books |-> 0]
    /\ typed = <<>>
    /\ verdict = Nil
    /\ jumped = [s \in Sessions |-> -1]

\* The passage of time between two steps of the goroutines.
Tick ==
    /\ now < MaxTime
    /\ now' = now + 1
    /\ UNCHANGED <<users, book_progress, typing_sessions, pc, msgType, selectedBook,
                   bookProgress, bookVerses, currentVerseIndex, runtimeStats,
                   sessionID, err, out, shown, answered>>
    /\ UNCHANGED <<typed, verdict, jumped>>

\* handleWebSocket returns: its local variables are gone, the connection is
\* closed (defer conn.Close()).
Return(s) ==
    /\ pc' = [pc EXCEPT ![s] = "done"]
    /\ msgType' = [msgType EXCEPT ![s] = ""]
    /\ selectedBook' = [selectedBook EXCEPT ![s] = ""]
    /\ bookProgress' = [bookProgress EXCEPT ![s] = Nil]
    /\ bookVerses' = [bookVerses EXCEPT ![s] = <<>>]
    /\ currentVerseIndex' = [currentVerseIndex EXCEPT ![s] = 0]
    /\ runtimeStats' = [runtimeStats EXCEPT ![s] = NewRuntimeStats(0)]
    /\ sessionID' = [sessionID EXCEPT ![s] = 0]
    /\ err' = [err EXCEPT ![s] = "nil"]
    /\ shown' = [shown EXCEPT ![s] = Nil]

\* From the upgrade to the first ReadJSON: ensureUser (its failure returns),
\* the runtime stats, getAllBookProgress and the books message.
Connect(s, failUser, failAll) ==
    /\ pc[s] = "start"
    /\ IF failUser
       THEN /\ Return(s)
            /\ UNCHANGED <<users, out>>
       ELSE /\ pc' = [pc EXCEPT ![s] = "read"]
            /\ users' = users \cup {Uid}
            /\ runtimeStats' = [runtimeStats EXCEPT ![s] = NewRuntimeStats(now)]
            /\ out' = [out EXCEPT ![s] = <<BooksMessage(getAllBookProgress(Uid, failAll))>>]
            /\ UNCHANGED <<msgType, selectedBook, bookProgress, bookVerses,
                           currentVerseIndex, sessionID, err, shown>>
    /\ UNCHANGED <<now, book_progress, typing_sessions, answered>>
    /\ UNCHANGED <<typed, verdict>>
    /\ jumped' = [jumped EXCEPT ![s] = -1]

\* conn.ReadJSON returns an error: the handler returns.
ReadError(s) ==
    /\ pc[s] = "read"
    /\ Return(s)
    /\ out' = [out EXCEPT ![s] = <<>>]
    /\ UNCHANGED <<now, users, book_progress, typing_sessions, answered>>
    /\ UNCHANGED <<typed, verdict>>
    /\ jumped' = [jumped EXCEPT ![s] = -1]

\* The same line written with `=`: the function-level variable is assigned.
AssignBookVerses_NoShadow(outer, local) == local

\* What the function-level variable bookVerses holds after line 448,
\* `bookVerses, exists := versesByBook[selectedBook]`: the short declaration
\* stands in the case clause, a block of its own, where both names are new,
\* so it declares a second bookVerses and the function-level one keeps its
\* value.
AssignBookVerses(outer, local) == outer

\* What a verse message showed: the book, the index in the book, the text.
Shown(v, index) == [BookName |-> v.BookName, Index |-> index, Text |-> v.Text]

\* The value of the map lookup versesByBook[name], and whether it exists.
Lookup(name) == IF name \in Books THEN versesByBook[name] ELSE <<>>

\* select_book from line 462 on, with the progress bp that getBookProgress
\* returned and the clause's own bookVerses: the typing session, the reset of
\* the runtime stats, and the verse or the complete message.
SelectTail(s, bp, local) ==
    /\ bookProgress' = [bookProgress EXCEPT ![s] = bp]
    /\ sessionID' = [sessionID EXCEPT ![s] = 1]
    /\ typing_sessions' =
          [typing_sessions EXCEPT ![s] = [chars_typed |-> 0, correct_chars |-> 0, wpm |-> 0]]
    /\ runtimeStats' = [runtimeStats EXCEPT ![s] = NewRuntimeStats(now)]
    /\ currentVerseIndex' = [currentVerseIndex EXCEPT ![s] = bp.CurrentVerse]
    /\ IF bp.CurrentVerse < Len(local)
       THEN /\ out' = [out EXCEPT ![s] =
                        <<VerseMessage(local[bp.CurrentVerse + 1], bp.CurrentVerse, Len(local),
                                       Stats(bp, NewRuntimeStats(now)))>>]
            /\ shown' = [shown EXCEPT ![s] = Shown(local[bp.CurrentVerse + 1], bp.CurrentVerse)]
       ELSE /\ out' = [out EXCEPT ![s] =
                        <<Message("complete", <<"completed">>, Nil, 0, 0,
                                  Stats(bp, NewRuntimeStats(now)))>>]
            /\ UNCHANGED shown

\* select_book up to the SELECT of getBookProgress; when the SELECT returns a
\* row, through to the end of the case.
SelectBook(s, name, failQuery) ==
    /\ pc[s] = "read"
    /\ msgType' = [msgType EXCEPT ![s] = "select_book"]
    /\ selectedBook' = [selectedBook EXCEPT ![s] = name]
    /\ bookVerses' = [bookVerses EXCEPT ![s] = AssignBookVerses(bookVerses[s], Lookup(name))]
    /\ IF name \notin Books
       THEN /\ out' = [out EXCEPT ![s] = <<Plain("error", "Book not found")>>]
            /\ UNCHANGED <<book_progress, typing_sessions, pc, bookProgress,
                           currentVerseIndex, runtimeStats, sessionID, err, shown>>
       ELSE IF ~failQuery /\ RowsOf(Uid, name) # {}
       THEN /\ SelectTail(s, Scan(FirstRow(Uid, name)), Lookup(name))
            /\ UNCHANGED <<book_progress, pc, err>>
       ELSE /\ pc' = [pc EXCEPT ![s] = "insert"]
            /\ err' = [err EXCEPT ![s] = IF failQuery THEN "failed" ELSE "no rows"]
            /\ out' = [out EXCEPT ![s] = <<>>]
            /\ UNCHANGED <<book_progress, typing_sessions, bookProgress,
                           currentVerseIndex, runtimeStats, sessionID, shown>>
    /\ UNCHANGED <<now, users, answered>>
    /\ UNCHANGED <<typed, verdict>>
    /\ jumped' = [jumped EXCEPT ![s] = -1]

\* getBookProgress from its INSERT on, then the rest of select_book.
SelectBookInsert(s, failInsert) ==
    /\ pc[s] = "insert"
    /\ pc' = [pc EXCEPT ![s] = "read"]
    /\ err' = [err EXCEPT ![s] = "nil"]
    /\ IF failInsert \/ UniqueViolation(Uid, selectedBook[s])
       THEN /\ bookProgress' = [bookProgress EXCEPT ![s] = Nil]
            /\ out' = [out EXCEPT ![s] = <<Plain("error", "Failed to load progress")>>]
            /\ UNCHANGED <<book_progress, typing_sessions, currentVerseIndex,
                           runtimeStats, sessionID, shown>>
       ELSE /\ book_progress' =
                  Append(book_progress,
                         InsertedRow(Uid, selectedBook[s], Len(Lookup(selectedBook[s]))))
            /\ SelectTail(s, NewBookProgress(Len(Lookup(selectedBook[s]))),
                          Lookup(selectedBook[s]))
    /\ UNCHANGED <<now, users, msgType, selectedBook, bookVerses, answered>>
    /\ UNCHANGED <<typed, verdict>>
    /\ jumped' = [jumped EXCEPT ![s] = -1]

\* jump_to_verse.
\* The history of jumps: the index content names, when a collection is
\* selected and the number lies between 1 and the number of its passages.
JumpAsked(s, content) ==
    IF /\ bookProgress[s] # Nil
       /\ selectedBook[s] \in Books
       /\ 1 <= Sscanf(content)
       /\ Sscanf(content) <= Len(versesByBook[selectedBook[s]])
    THEN Sscanf(content) - 1
    ELSE -1

JumpToVerse(s, content) ==
    /\ pc[s] = "read"
    /\ msgType' = [msgType EXCEPT ![s] = "jump_to_verse"]
    /\ IF selectedBook[s] = "" \/ bookProgress[s] = Nil
       THEN /\ out' = [out EXCEPT ![s] = <<>>]
            /\ UNCHANGED <<currentVerseIndex, shown>>
       ELSE IF Sscanf(content) < 1 \/ Sscanf(content) > Len(bookVerses[s])
       THEN /\ out' = [out EXCEPT ![s] = <<Plain("error", "Invalid verse number")>>]
            /\ UNCHANGED <<currentVerseIndex, shown>>
       ELSE /\ currentVerseIndex' = [currentVerseIndex EXCEPT ![s] = Sscanf(content) - 1]
            /\ out' = [out EXCEPT ![s] =
                        <<VerseMessage(bookVerses[s][Sscanf(content)], Sscanf(content) - 1,
                                       Len(bookVerses[s]),
                                       Stats(bookProgress[s], runtimeStats[s]))>>]
            /\ shown' = [shown EXCEPT ![s] =
                          Shown(bookVerses[s][Sscanf(content)], Sscanf(content) - 1)]
    /\ UNCHANGED <<now, users, book_progress, typing_sessions, pc, selectedBook,
                   bookProgress, bookVerses, runtimeStats, sessionID, err, answered>>
    /\ UNCHANGED <<typed, verdict>>
    /\ jumped' = [jumped EXCEPT ![s] = JumpAsked(s, content)]

\* The history of exact answers: a content message whose cleaned, trimmed
\* text is the text of the verse shown last on the connection, that verse
\* being the next unanswered one of its book.
AnsweredAfter(s, text) ==
    IF /\ shown[s] # Nil
       /\ cleanString(TrimSpace(text)) = cleanString(TrimSpace(shown[s].Text))
       /\ shown[s].Index = answered[shown[s].BookName]
    THEN [answered EXCEPT ![shown[s].BookName] = @ + 1]
    ELSE answered

\* runtimeStats after lines 518-521.
Started(rs, user) ==
    IF ~rs.Started /\ len(user) > 0 THEN [rs EXCEPT !.Started = TRUE, !.StartTime = now] ELSE rs

\* The same lines with the WPM taken from all the characters typed.
Matched_CharsTyped(rs, user, correct) ==
    LET counted == [rs EXCEPT !.CorrectChars = @ + len(correct), !.CharsTyped = @ + len(user)]
        elapsed == now - counted.StartTime
    IN  IF elapsed > 0
        THEN [counted EXCEPT !.WPM = counted.CharsTyped \div (5 * elapsed)]
        ELSE counted

\* runtimeStats after lines 529-537: elapsed is time.Since(StartTime) in
\* minutes, and int() truncates the quotient.
Matched(rs, user, correct) ==
    LET counted == [rs EXCEPT !.CorrectChars = @ + len(correct), !.CharsTyped = @ + len(user)]
        elapsed == now - counted.StartTime
    IN  IF elapsed > 0
        THEN [counted EXCEPT !.WPM = counted.CorrectChars \div (5 * elapsed)]
        ELSE counted

\* content.
Content(s, text, failUpdate) ==
    /\ pc[s] = "read"
    /\ answered' = AnsweredAfter(s, text)
    /\ IF selectedBook[s] = "" \/ bookProgress[s] = Nil
       THEN /\ out' = [out EXCEPT ![s] = <<>>]
            /\ msgType' = [msgType EXCEPT ![s] = "content"]
            /\ UNCHANGED <<book_progress, typing_sessions, pc, bookProgress, runtimeStats,
                           shown, selectedBook, bookVerses, currentVerseIndex, sessionID, err>>
       ELSE IF currentVerseIndex[s] >= Len(bookVerses[s])
       THEN /\ out' = [out EXCEPT ![s] = <<>>]
            /\ msgType' = [msgType EXCEPT ![s] = "content"]
            /\ UNCHANGED <<book_progress, typing_sessions, pc, bookProgress, runtimeStats,
                           shown, selectedBook, bookVerses, currentVerseIndex, sessionID, err>>
       ELSE LET v == bookVerses[s][currentVerseIndex[s] + 1]
                user == cleanString(TrimSpace(text))
                correct == cleanString(TrimSpace(v.Text))
                rs == Started(runtimeStats[s], user)
                hit == Matched(rs, user, correct)
                bpHit == [bookProgress[s] EXCEPT !.CurrentVerse = @ + 1,
                                                 !.CorrectEntries = @ + 1]
                miss == [rs EXCEPT !.CharsTyped = @ + len(user)]
                bpMiss == [bookProgress[s] EXCEPT !.Mistakes = @ + 1]
            IN  IF ToLower(user) = <<"q", "u", "i", "t">>
                THEN /\ out' = [out EXCEPT ![s] = <<Plain("response", "Goodbye")>>]
                     /\ Return(s)
                     /\ UNCHANGED <<book_progress, typing_sessions>>
                ELSE IF user = correct
                THEN /\ bookProgress[s].CurrentVerse < MaxVerseCount
                     /\ runtimeStats' = [runtimeStats EXCEPT ![s] = hit]
                     /\ bookProgress' = [bookProgress EXCEPT ![s] = bpHit]
                     /\ book_progress' =
                           updateBookProgress(Uid, selectedBook[s], bpHit, failUpdate)
                     /\ typing_sessions' = updateTypingSession(s, hit)
                     /\ IF bpHit.CurrentVerse < Len(bookVerses[s])
                        THEN /\ out' = [out EXCEPT ![s] =
                                  << Plain("correct", "correct"),
                                     Message("stats", <<>>, Nil, 0, 0, Stats(bpHit, hit)),
                                     VerseMessage(bookVerses[s][bpHit.CurrentVerse + 1],
                                                  bpHit.CurrentVerse, Len(bookVerses[s]),
                                                  Stats(bpHit, hit)) >>]
                             /\ shown' = [shown EXCEPT ![s] =
                                  Shown(bookVerses[s][bpHit.CurrentVerse + 1],
                                        bpHit.CurrentVerse)]
                        ELSE /\ out' = [out EXCEPT ![s] =
                                  << Plain("correct", "correct"),
                                     Message("stats", <<>>, Nil, 0, 0, Stats(bpHit, hit)),
                                     Message("complete", <<"All done!">>, Nil, 0, 0,
                                             Stats(bpHit, hit)) >>]
                             /\ UNCHANGED shown
                     /\ msgType' = [msgType EXCEPT ![s] = "content"]
                     /\ UNCHANGED <<pc, selectedBook, bookVerses, currentVerseIndex,
                                    sessionID, err>>
                ELSE /\ bookProgress[s].Mistakes < MaxMistakes
                     /\ runtimeStats' = [runtimeStats EXCEPT ![s] = miss]
                     /\ bookProgress' = [bookProgress EXCEPT ![s] = bpMiss]
                     /\ book_progress' =
                           updateBookProgress(Uid, selectedBook[s], bpMiss, failUpdate)
                     /\ typing_sessions' = updateTypingSession(s, miss)
                     /\ out' = [out EXCEPT ![s] =
                                  << Plain("wrong", "wrong"),
                                     Message("stats", <<>>, Nil, 0, 0, Stats(bpMiss, miss)) >>]
                     /\ msgType' = [msgType EXCEPT ![s] = "content"]
                     /\ UNCHANGED <<pc, shown, selectedBook, bookVerses, currentVerseIndex,
                                    sessionID, err>>
    /\ UNCHANGED <<now, users>>
    /\ UNCHANGED <<typed, verdict>>
    /\ jumped' = [jumped EXCEPT ![s] = -1]

Next ==
    \/ Tick
    \/ \E s \in Sessions, failUser \in BOOLEAN, failAll \in BOOLEAN :
          Connect(s, failUser, failAll)
    \/ \E s \in Sessions : ReadError(s)
    \/ \E s \in Sessions, name \in BookNames, failQuery \in BOOLEAN :
          SelectBook(s, name, failQuery)
    \/ \E s \in Sessions, failInsert \in BOOLEAN : SelectBookInsert(s, failInsert)
    \/ \E s \in Sessions, content \in JumpContents : JumpToVerse(s, content)
    \/ \E s \in Sessions, text \in Submissions, failUpdate \in BOOLEAN :
          Content(s, text, failUpdate)

Spec == Init /\ [][Next]_vars

\* ------------------------------------------------------ runtime stats
\* The verses of all the books.
AllVerses == UNION {{versesByBook[b][n] : n \in 1..Len(versesByBook[b])} : b \in Books}

\* What the content case does to the runtime stats, from line 515 to the
\* end of the match or of the mismatch branch, for the text of a message and
\* the verse v it is compared with.
RuntimeStatsAfter(rs, text, v) ==
    LET user == cleanString(TrimSpace(text))
        correct == cleanString(TrimSpace(v.Text))
        started == Started(rs, user)
    IN  IF user = correct
        THEN Matched(started, user, correct)
        ELSE [started EXCEPT !.CharsTyped = @ + len(user)]

\* The runtime stats of a connection pass through these lines, apart from
\* the rest of the handler.
StatsStep(s, text, v) ==
    /\ ToLower(cleanString(TrimSpace(text))) # <<"q", "u", "i", "t">>
    /\ RuntimeStatsAfter(runtimeStats[s], text, v).CharsTyped <= MaxChars
    /\ runtimeStats' = [runtimeStats EXCEPT ![s] = RuntimeStatsAfter(runtimeStats[s], text, v)]
    /\ UNCHANGED <<now, users, book_progress, typing_sessions, pc, msgType, selectedBook,
                   bookProgress, bookVerses, currentVerseIndex, sessionID, err, out,
                   shown, answered, typed, verdict, jumped>>

NextStats ==
    \/ Tick
    \/ \E s \in Sessions, text \in Submissions, v \in AllVerses : StatsStep(s, text, v)

\* The runtime stats as Go initialises them, then any sequence of messages
\* compared with any verses at any times.
SpecStats == Init /\ [][NextStats]_vars

\* ------------------------------------------------------- text compared
\* The characters a client puts into msg.Content: letters, the space, a
\* control character that is white space, and the pilcrow.
Chars == {"I", "n", " ", "LF", "PILCROW"}

\* The client adds a character to the text of its next message.
TypeChar(c) ==
    /\ Len(typed) < MaxLen
    /\ typed' = Append(typed, c)
    /\ verdict' = Nil
    /\ UNCHANGED <<now, users, book_progress, typing_sessions, pc, msgType, selectedBook,
                   bookProgress, bookVerses, currentVerseIndex, runtimeStats, sessionID,
                   err, out, shown, answered, jumped>>

\* Lines 514-528: the text of the message is trimmed, then cleaned, and so is
\* the text of the verse; the result is tested for "quit", then compared.
Judge(text, v) ==
    LET user == cleanString(TrimSpace(text))
        correct == cleanString(TrimSpace(v.Text))
    IN  [verse |-> v,
         result |-> IF ToLower(user) = <<"q", "u", "i", "t">> THEN "quit"
                    ELSE IF user = correct THEN "correct" ELSE "wrong"]

\* The text composed is sent and compared with the verse v.
JudgeText(v) ==
    /\ verdict = Nil
    /\ verdict' = Judge(typed, v)
    /\ UNCHANGED <<now, users, book_progress, typing_sessions, pc, msgType, selectedBook,
                   bookProgress, bookVerses, currentVerseIndex, runtimeStats, sessionID,
                   err, out, shown, answered, typed, jumped>>

NextText ==
    \/ \E c \in Chars : TypeChar(c)
    \/ \E v \in AllVerses : JudgeText(v)

\* Every text of up to MaxLen characters, compared with every verse.
SpecText == Init /\ [][NextText]_vars

\* ------------------------------------------------------ progress listed
\* The tables book_progress that getAllBookProgress is applied to: no row,
\* or one row of the user with 0 <= current_verse <= total_verses (the
\* columns are INT NOT NULL, lines 82-92).
Tables ==
    {<<>>} \cup
    {<<[uid |-> Uid, book_name |-> x[1], current_verse |-> x[2], total_verses |-> x[3],
        correct_entries |-> x[2], mistakes |-> 0]>> :
        x \in {y \in Books \X (0..MaxVerseCount) \X (0..MaxVerseCount) : y[2] <= y[3]}}

InitList ==
    /\ now = 0
    /\ users = {}
    /\ book_progress \in Tables
    /\ typing_sessions = [s \in Sessions |-> Nil]
    /\ pc = [s \in Sessions |-> "start"]
    /\ msgType = [s \in Sessions |-> ""]
    /\ selectedBook = [s \in Sessions |-> ""]
    /\ bookProgress = [s \in Sessions |-> Nil]
    /\ bookVerses = [s \in Sessions |-> <<>>]
    /\ currentVerseIndex = [s \in Sessions |-> 0]
    /\ runtimeStats = [s \in Sessions |-> NewRuntimeStats(0)]
    /\ sessionID = [s \in Sessions |-> 0]
    /\ err = [s \in Sessions |-> "nil"]
    /\ out = [s \in Sessions |-> <<>>]
    /\ shown = [s \in Sessions |-> Nil]
    /\ answered = [b \in Books |-> 0]
    /\ typed = <<>>
    /\ verdict = Nil
    /\ jumped = [s \in Sessions |-> -1]

NextList ==
    \/ Tick
    \/ \E s \in Sessions, failUser \in BOOLEAN, failAll \in BOOLEAN :
          Connect(s, failUser, failAll)
    \/ \E s \in Sessions : ReadError(s)

\* Connections opened over every table of Tables: the books message carries
\* what getAllBookProgress returns.
SpecList == InitList /\ [][NextList]_vars

\* -------------------------------------------------------------- claims
\* The words of the specification used below.  A connection is awaiting
\* input when a passage of the selected collection has been presented and
\* the collection is not completed; a submission is exact when its cleaned,
\* trimmed text is that of the passage presented; it is a quit when it is
\* "quit" in any letter case.
Awaiting(s) ==
    /\ pc[s] = "read"
    /\ bookProgress[s] # Nil
    /\ shown[s] # Nil
    /\ selectedBook[s] = shown[s].BookName
    /\ bookProgress[s].CurrentVerse < bookProgress[s].TotalVerses

Exact(s, text) == cleanString(TrimSpace(text)) = cleanString(TrimSpace(shown[s].Text))

IsQuit(text) == ToLower(cleanString(TrimSpace(text))) = <<"q", "u", "i", "t">>

Types(msgs) == [i \in 1..Len(msgs) |-> msgs[i].type]

\* C1: every progress record, the working copy of each connection and each
\* persisted row, has 0 <= current index <= total.
C1_IndexWithinTotal ==
    /\ \A s \in Sessions :
          bookProgress[s] # Nil =>
             /\ 0 <= bookProgress[s].CurrentVerse
             /\ bookProgress[s].CurrentVerse <= bookProgress[s].TotalVerses
    /\ \A i \in DOMAIN book_progress :
          /\ 0 <= book_progress[i].current_verse
          /\ book_progress[i].current_verse <= book_progress[i].total_verses

\* A connection loaded its record from the persisted row and has since
\* handled a submission.
C1_Witness ==
    \E s \in Sessions :
        /\ bookProgress[s] # Nil
        /\ msgType[s] = "content"
        /\ book_progress # <<>>
        /\ \E r \in Sessions \ {s} : bookProgress[r] # Nil

\* C2: a submission that is exactly the passage presented, the passage being
\* the one at the current index, is judged correct, raises the current index
\* by one without lowering the mistake count, and is answered with a complete
\* message when the index reaches the total.
C2_ExactAnswersAdvance ==
    [][\A s \in Sessions, text \in Submissions, failUpdate \in BOOLEAN :
          ( /\ Awaiting(s)
            /\ shown[s].Index = bookProgress[s].CurrentVerse
            /\ Exact(s, text)
            /\ Content(s, text, failUpdate) )
          => /\ bookProgress'[s] # Nil
             /\ bookProgress'[s].CurrentVerse = bookProgress[s].CurrentVerse + 1
             /\ bookProgress'[s].Mistakes >= bookProgress[s].Mistakes
             /\ Len(out'[s]) = 3
             /\ out'[s][1].type = "correct"
             /\ (bookProgress'[s].CurrentVerse = bookProgress'[s].TotalVerses
                    => out'[s][3].type = "complete")]_vars

\* C3: after a select_book that presented a passage, the next submission is
\* answered with a correct or a wrong message and then a stats message.
C3_SubmitAfterSelectAnswered ==
    [][\A s \in Sessions, text \in Submissions, failUpdate \in BOOLEAN :
          ( /\ Awaiting(s)
            /\ msgType[s] = "select_book"
            /\ Types(out[s]) = <<"verse">>
            /\ ~IsQuit(text)
            /\ Content(s, text, failUpdate) )
          => /\ Len(out'[s]) >= 2
             /\ out'[s][1].type \in {"correct", "wrong"}
             /\ out'[s][2].type = "stats"]_vars

\* C4: a submission made while awaiting input that differs from the passage
\* presented adds one mistake, leaves the rest of the record, the correct
\* characters, the WPM and the passage as they were, persists the record
\* (when the update does not fail) and is answered with wrong, then stats.
C4_MismatchCounted ==
    [][\A s \in Sessions, text \in Submissions, failUpdate \in BOOLEAN :
          ( /\ Awaiting(s)
            /\ ~Exact(s, text)
            /\ ~IsQuit(text)
            /\ Content(s, text, failUpdate) )
          => /\ bookProgress'[s] = [bookProgress[s] EXCEPT !.Mistakes = @ + 1]
             /\ runtimeStats'[s].CorrectChars = runtimeStats[s].CorrectChars
             /\ runtimeStats'[s].WPM = runtimeStats[s].WPM
             /\ shown'[s] = shown[s]
             /\ currentVerseIndex'[s] = currentVerseIndex[s]
             /\ (~failUpdate =>
                    \A i \in DOMAIN book_progress' :
                        book_progress'[i].book_name = shown[s].BookName
                           => book_progress'[i].mistakes = bookProgress'[s].Mistakes)
             /\ Types(out'[s]) = <<"wrong", "stats">>]_vars

NoCollection(s) == bookProgress[s] = Nil /\ sessionID[s] = 0

\* The collection selected on the connection is completed.
Completed(s) ==
    bookProgress[s] # Nil /\ bookProgress[s].CurrentVerse = bookProgress[s].TotalVerses

C7_UnknownSelectChangesNothing ==
    [][\A s \in Sessions, name \in BookNames \ Books, failQuery \in BOOLEAN :
          SelectBook(s, name, failQuery)
          => /\ Types(out'[s]) = <<"error">>
             /\ selectedBook'[s] = selectedBook[s]
             /\ bookVerses'[s] = bookVerses[s]
             /\ bookProgress'[s] = bookProgress[s]
             /\ runtimeStats'[s] = runtimeStats[s]
             /\ currentVerseIndex'[s] = currentVerseIndex[s]]_vars

C9_ConcurrentCreateSucceeds ==
    [][\A s \in Sessions :
          ( /\ err[s] = "no rows"
            /\ SelectBookInsert(s, FALSE) )
          => /\ bookProgress'[s] = NewBookProgress(Len(Lookup(selectedBook[s])))
             /\ Cardinality({i \in DOMAIN book_progress' :
                               book_progress'[i].book_name = selectedBook[s]}) = 1]_vars

\* C10: when the update fails while an exact submission is handled, the
\* connection stays open, the working record keeps the increment of the
\* current index and of the correct count, and correct, stats and the next
\* passage or complete are written; an update that succeeds writes the
\* working record to the row.
C10_FailedUpdateKeepsIncrement ==
    [][\A s \in Sessions, text \in Submissions :
          /\ ( /\ Awaiting(s)
               /\ Exact(s, text)
               /\ Content(s, text, TRUE) )
             => /\ pc'[s] = "read"
                /\ bookProgress'[s] # Nil
                /\ bookProgress'[s].CurrentVerse = bookProgress[s].CurrentVerse + 1
                /\ bookProgress'[s].CorrectEntries = bookProgress[s].CorrectEntries + 1
                /\ \/ Types(out'[s]) = <<"correct", "stats", "verse">>
                   \/ Types(out'[s]) = <<"correct", "stats", "complete">>
          /\ ( /\ Awaiting(s)
               /\ ~IsQuit(text)
               /\ Content(s, text, FALSE) )
             => \A i \in RowsOf(Uid, selectedBook[s]) :
                   Scan(book_progress'[i]) = bookProgress'[s]]_vars

\* C11: when the update of the row fails while a submission is handled on a
\* connection awaiting input, the messages written are correct or wrong, then
\* stats, and among the messages is one that is neither of these nor verse nor
\* complete, reporting the failure; the connection stays open with its
\* working record.
C11_FailedUpdateReported ==
    [][\A s \in Sessions, text \in Submissions :
          ( /\ Awaiting(s)
            /\ ~IsQuit(text)
            /\ Content(s, text, TRUE) )
          => /\ pc'[s] = "read"
             /\ bookProgress'[s] # Nil
             /\ Len(out'[s]) >= 3
             /\ out'[s][1].type \in {"correct", "wrong"}
             /\ \E i \in DOMAIN out'[s] : out'[s][i].type = "stats"
             /\ \E i \in DOMAIN out'[s] :
                   out'[s][i].type \notin {"correct", "wrong", "stats", "verse", "complete"}]_vars

\* A passage has been presented on the connection and the working record is
\* not completed; the collection named by the connection may have changed
\* since through a select_book of an unknown name.
Working(s) ==
    /\ pc[s] = "read"
    /\ bookProgress[s] # Nil
    /\ shown[s] # Nil
    /\ bookProgress[s].CurrentVerse < bookProgress[s].TotalVerses

\* No connection but s has been opened.
Alone(s) == \A r \in Sessions \ {s} : pc[r] = "start"

C13_CorrectThenStatsThenNext ==
    [][\A s \in Sessions, text \in Submissions :
          ( /\ Awaiting(s)
            /\ Exact(s, text)
            /\ Content(s, text, FALSE) )
          => LET k == bookProgress'[s].CurrentVerse
                 total == bookProgress'[s].TotalVerses
             IN  /\ \A i \in RowsOf(Uid, selectedBook[s]) :
                       book_progress'[i].current_verse = k
                 /\ IF k < total
                    THEN /\ Types(out'[s]) = <<"correct", "stats", "verse">>
                         /\ out'[s][3].verse = versesByBook[selectedBook[s]][k + 1]
                         /\ out'[s][3].number = k + 1
                    ELSE /\ k = total
                         /\ Types(out'[s]) = <<"correct", "stats", "complete">>]_vars

\* C14: a submission that is "quit" in any letter case, on a connection
\* awaiting input, writes the single message response and ends the
\* connection; nothing is written to the tables.
C14_QuitEndsConnection ==
    [][\A s \in Sessions, text \in Submissions, failUpdate \in BOOLEAN :
          ( /\ Awaiting(s)
            /\ IsQuit(text)
            /\ Content(s, text, failUpdate) )
          => /\ Types(out'[s]) = <<"response">>
             /\ pc'[s] = "done"
             /\ book_progress' = book_progress
             /\ typing_sessions' = typing_sessions]_vars

\* C17: with a collection selected, jump_to_verse with a number p from 1 to
\* the number of passages of the collection writes the single message verse
\* with the passage at index p - 1 and number p; with any other content it
\* writes the single message error and leaves the state of the connection as
\* it was.
C17_JumpShowsPassage ==
    [][\A s \in Sessions, content \in JumpContents :
          ( /\ bookProgress[s] # Nil
            /\ selectedBook[s] \in Books
            /\ JumpToVerse(s, content) )
          => LET p == Sscanf(content)
                 verses == versesByBook[selectedBook[s]]
             IN  IF 1 <= p /\ p <= Len(verses)
                 THEN /\ Types(out'[s]) = <<"verse">>
                      /\ out'[s][1].verse = verses[p]
                      /\ out'[s][1].number = p
                 ELSE /\ Types(out'[s]) = <<"error">>
                      /\ selectedBook'[s] = selectedBook[s]
                      /\ bookProgress'[s] = bookProgress[s]
                      /\ runtimeStats'[s] = runtimeStats[s]
                      /\ currentVerseIndex'[s] = currentVerseIndex[s]
                      /\ book_progress' = book_progress]_vars

\* The step ends the handling of a select_book of a collection on s: the
\* SELECT returned a row, or the INSERT was made or failed.
SelectDone(s) ==
    \/ \E b \in Books, failQuery \in BOOLEAN : SelectBook(s, b, failQuery) /\ pc'[s] = "read"
    \/ selectedBook[s] \in Books /\ \E failInsert \in BOOLEAN : SelectBookInsert(s, failInsert)

C20_OnlyReadErrorOrQuitEnds ==
    [][\A s \in Sessions :
          (pc[s] # "done" /\ pc'[s] = "done")
          => \/ ReadError(s)
             \/ \E text \in Submissions, failUpdate \in BOOLEAN :
                   IsQuit(text) /\ Content(s, text, failUpdate)]_vars

RECURSIVE Decorated(_, _)
Decorated(s, t) ==
    IF s = <<>> THEN t = <<>>
    ELSE IF Dropped(Head(s)) THEN Decorated(Tail(s), t)
    ELSE IF t # <<>> /\ Head(s) = Head(t) THEN Decorated(Tail(s), Tail(t))
    ELSE t = <<>> /\ IsSpace(Head(s)) /\ Decorated(Tail(s), t)

\* C16: cleaning a cleaned text changes nothing, and a text that is the text
\* of a verse with white space appended and with control characters,
\* pilcrows or separators inserted anywhere is judged correct against that
\* verse.
C16_DecoratedTextIsCorrect ==
    /\ cleanString(cleanString(typed)) = cleanString(typed)
    /\ (verdict # Nil /\ Decorated(typed, verdict.verse.Text))
          => verdict.result = "correct"

C21_ComparedWithPassageShown ==
    [][\A s \in Sessions, text \in Submissions, failUpdate \in BOOLEAN :
          ( /\ Awaiting(s)
            /\ ~IsQuit(text)
            /\ Content(s, text, failUpdate) )
          => /\ Len(out'[s]) >= 1
             /\ out'[s][1].type = IF Exact(s, text) THEN "correct" ELSE "wrong"]_vars

\* C22: after a jump_to_verse to a passage at an index below the number of
\* passages already answered, a submission of that passage's text is
\* answered with correct, the current index and the correct count of the
\* working record stay as they were, and no row gets a higher current index
\* or correct count.
C22_ReplayDoesNotCount ==
    [][\A s \in Sessions, text \in Submissions, failUpdate \in BOOLEAN :
          ( /\ pc[s] = "read"
            /\ bookProgress[s] # Nil
            /\ selectedBook[s] \in Books
            /\ jumped[s] >= 0
            /\ jumped[s] < answered[selectedBook[s]]
            /\ cleanString(TrimSpace(text)) =
                  cleanString(TrimSpace(versesByBook[selectedBook[s]][jumped[s] + 1].Text))
            /\ Content(s, text, failUpdate) )
          => /\ Len(out'[s]) >= 1
             /\ out'[s][1].type = "correct"
             /\ bookProgress'[s] # Nil
             /\ bookProgress'[s].CurrentVerse = bookProgress[s].CurrentVerse
             /\ bookProgress'[s].CorrectEntries = bookProgress[s].CorrectEntries
             /\ \A i \in DOMAIN book_progress :
                   /\ book_progress'[i].current_verse <= book_progress[i].current_verse
                   /\ book_progress'[i].correct_entries <= book_progress[i].correct_entries]_vars

\* C23: in the working record of every connection and in every row of
\* book_progress, the correct count equals the current index.
C23_CorrectEqualsIndex ==
    /\ \A s \in Sessions :
          bookProgress[s] # Nil => bookProgress[s].CorrectEntries = bookProgress[s].CurrentVerse
    /\ \A i \in DOMAIN book_progress :
          book_progress[i].correct_entries = book_progress[i].current_verse

\* Two connections work on the row of one collection, one loaded from the
\* row the other inserted; one has handled a submission of the passage
\* presented, the other a jump.
C23_Witness ==
    /\ book_progress # <<>>
    /\ \E s \in Sessions, r \in Sessions :
          /\ bookProgress[s] # Nil
          /\ bookProgress[r] # Nil
          /\ selectedBook[s] \in Books
          /\ selectedBook[s] = selectedBook[r]
          /\ msgType[s] = "content"
          /\ answered[selectedBook[s]] > 0
          /\ msgType[r] = "jump_to_verse"
          /\ jumped[r] >= 0

====
